---- MODULE Spec2Model ----
(***************************************************************************)
(* Model of the skip-list ordered map of skipmap/skipmap.go.               *)
(*                                                                         *)
(* Nodes live in an arena: node 0 is the header, nodes 1..MaxNodes are     *)
(* the slots of the heap, Nil is the null reference.  forward[n] is a      *)
(* function over 0..(level of n), exactly as the Go slice.  Every public   *)
(* method holds the engine lock from its first to its last statement, so   *)
(* one method call is one action.                                          *)
(***************************************************************************)
EXTENDS Integers, Sequences, FiniteSets, TLC

\* ---- bounds of the model ----
MaxKey == 2
\* the model's stand-in for DefaultMaxLevel (32 in the source)
MaxLevelBound == 2
\* the goroutines that call the map at the same time
NumThreads == 2

Keys == 1..MaxKey
\* V is string in the tests; two distinct values tell an overwrite from a no-op
Values == {"a", "b"}
\* the heap: one slot more than there are keys
NodeIds == 1..(MaxKey + 1)

\* what the abstract map holds for a key that is not in it
Absent == "absent"

header == 0
Nil == -1
\* zero value of K and of V (var zeroK K; var zeroV V)
zeroK == 0
zeroV == ""

maxLevel == MaxLevelBound
Levels == 0..(maxLevel - 1)

VARIABLES
    forward,      \* forward[n][i]: Node.forward of every arena slot
    key,          \* Node.key
    value,        \* Node.value
    level,        \* SkipMap.level
    length,       \* SkipMap.length
    updateCache,  \* SkipMap.updateCache
    last,         \* the last call: its name, arguments and what it returned
    model,        \* history: per key, what the last Put or Remove on it left
    everPut,      \* history: the keys ever Put
    everRemoved,  \* history: the keys ever successfully Removed
    pc,           \* per goroutine: where it is in its call
    loc,          \* per goroutine: the call it is in, its arguments and locals
    mu,           \* SkipMap.mu: the writer, the read holds, the blocked readers
    todo,         \* per goroutine: the calls its program has yet to make
    written,      \* history: the entries of updateCache the call in progress wrote
    committed     \* history: the engine as the last Unlock left it

vars == <<forward, key, value, level, length, updateCache, last, model, everPut, everRemoved,
          pc, loc, mu, todo, written, committed>>
conc == <<pc, loc, mu, todo, written, committed>>
history == <<model, everPut, everRemoved>>
engine == <<forward, key, value, level, length>>

\* the goroutines, and the value of pc, loc and mu.w that stands for none
Threads == 1..NumThreads
NoThread == 0
NoCall == [op |-> "none"]

\* make([]*Node, n)
makeForward(n) == [i \in 0..(n - 1) |-> Nil]

\* cmp.Compare / defaultComparator
comparator(a, b) == IF a < b THEN -1 ELSE IF a > b THEN 1 ELSE 0

\* randomLevel: coins[j] is the outcome of the j-th "rand.Float32() < probability"
RECURSIVE randomLevelFrom(_, _)
randomLevelFrom(coins, lvl) ==
    IF coins[lvl + 1] /\ lvl < maxLevel - 1
    THEN randomLevelFrom(coins, lvl + 1)
    ELSE lvl

randomLevel(coins) == randomLevelFrom(coins, 0)

\* randomLevel: the number of calls of rand.Float32() one draw makes
RECURSIVE flipsFrom(_, _)
flipsFrom(coins, lvl) ==
    IF coins[lvl + 1] /\ lvl < maxLevel - 1
    THEN flipsFrom(coins, lvl + 1)
    ELSE lvl + 1

flipsDrawn(coins) == flipsFrom(coins, 0)

\* the coin sequences one draw can see: n successes, then a failure (the flips
\* after the first failure are never drawn; at most maxLevel flips are looked at)
CoinFlips == {[j \in 1..maxLevel |-> j <= n] : n \in 0..maxLevel}

\* advance with the comparison "<= 0": the search runs past an equal key
RECURSIVE advancePastEqual(_, _, _)
advancePastEqual(cur, i, k) ==
    IF forward[cur][i] # Nil /\ comparator(key[forward[cur][i]], k) <= 0
    THEN advancePastEqual(forward[cur][i], i, k)
    ELSE cur

\* the inner loop of every search: advance at level i while the next key is less
RECURSIVE advance(_, _, _)
advance(cur, i, k) ==
    IF forward[cur][i] # Nil /\ comparator(key[forward[cur][i]], k) < 0
    THEN advance(forward[cur][i], i, k)
    ELSE cur

\* the outer loop of the search of Put and Remove, recording update[i]
RECURSIVE findUpdate(_, _, _, _)
findUpdate(cur, i, k, upd) ==
    IF i < 0 THEN [current |-> cur, update |-> upd]
    ELSE LET c == advance(cur, i, k)
         IN findUpdate(c, i - 1, k, [upd EXCEPT ![i] = c])

\* find with the loop condition "i > 0": level 0 is never walked
RECURSIVE findAboveZero(_, _, _)
findAboveZero(cur, i, k) ==
    IF i <= 0 THEN cur ELSE findAboveZero(advance(cur, i, k), i - 1, k)

\* the outer loop of the search of Get, Range and RangeFunc
RECURSIVE find(_, _, _)
find(cur, i, k) ==
    IF i < 0 THEN cur ELSE find(advance(cur, i, k), i - 1, k)

\* a slot holds no node
free(n) == DOMAIN forward[n] = {}

\* &Node{...}: the slot a new node of key k is allocated in.  Addresses are not
\* observable, so the allocator is a fixed one: slot k when it is free, else
\* the lowest free slot.
newSlot(k) ==
    IF free(k) THEN k
    ELSE CHOOSE n \in NodeIds : free(n) /\ \A m \in NodeIds : (m < n) => ~free(m)

Init ==
    /\ forward = [n \in {header} \cup NodeIds |-> IF n = header THEN makeForward(maxLevel) ELSE makeForward(0)]
    /\ key = [n \in NodeIds |-> zeroK]
    /\ value = [n \in NodeIds |-> zeroV]
    /\ level = 0
    /\ length = 0
    /\ updateCache = [i \in Levels |-> Nil]
    /\ last = [op |-> "New"]
    /\ model = [k \in Keys |-> Absent]
    /\ everPut = {}
    /\ everRemoved = {}
    /\ pc = [t \in Threads |-> "idle"]
    /\ loc = [t \in Threads |-> NoCall]
    /\ mu = [w |-> NoThread, readers |-> [t \in Threads |-> 0], rwait |-> {}]
    /\ todo = [t \in Threads |-> <<>>]
    /\ written = {}
    /\ committed = <<forward, key, value, level, length>>

\* Put, lines 89-94: the frontier of the newly active levels is the header
raiseUpdate(update, newLevel) ==
    [i \in Levels |-> IF newLevel > level /\ i >= level + 1 /\ i <= newLevel THEN header ELSE update[i]]

\* Put, lines 102-105: link node n in at levels i..newLevel
RECURSIVE splice(_, _, _, _, _)
splice(fwd, update, n, i, newLevel) ==
    IF i > newLevel THEN fwd
    ELSE LET f1 == [fwd EXCEPT ![n][i] = fwd[update[i]][i]]
             f2 == [f1 EXCEPT ![update[i]][i] = n]
         IN splice(f2, update, n, i + 1, newLevel)

\* unlink that clears the frontier's link instead of passing on current's
RECURSIVE unlinkDropsTail(_, _, _, _, _)
unlinkDropsTail(fwd, update, current, i, lvl) ==
    IF i > lvl \/ fwd[update[i]][i] # current THEN fwd
    ELSE unlinkDropsTail([fwd EXCEPT ![update[i]][i] = Nil], update, current, i + 1, lvl)

\* unlink that rewires level 0 only
unlinkLevelZeroOnly(fwd, update, current, i, lvl) ==
    IF fwd[update[0]][0] # current THEN fwd
    ELSE [fwd EXCEPT ![update[0]][0] = fwd[current][0]]

\* Remove, lines 148-153: unlink node current at levels i..lvl, stopping at the
\* first level whose frontier does not point at it
RECURSIVE unlink(_, _, _, _, _)
unlink(fwd, update, current, i, lvl) ==
    IF i > lvl \/ fwd[update[i]][i] # current THEN fwd
    ELSE unlink([fwd EXCEPT ![update[i]][i] = fwd[current][i]], update, current, i + 1, lvl)

\* shrinkLevel that never lowers the level
shrinkLevelNever(fwd, lvl) == lvl

\* shrinkLevel with the loop condition "s.level >= 0"
RECURSIVE shrinkLevelBelowZero(_, _)
shrinkLevelBelowZero(fwd, lvl) ==
    IF lvl >= 0 /\ fwd[header][lvl] = Nil THEN shrinkLevelBelowZero(fwd, lvl - 1) ELSE lvl

\* Remove, lines 155-157
RECURSIVE shrinkLevel(_, _)
shrinkLevel(fwd, lvl) ==
    IF lvl > 0 /\ fwd[header][lvl] = Nil THEN shrinkLevel(fwd, lvl - 1) ELSE lvl

\* PutOverwrite without "current.value = value"
PutOverwriteKeepsValue(current, update, k, v) ==
    /\ updateCache' = update
    /\ UNCHANGED <<forward, key, value, level, length>>
    /\ last' = [op |-> "Put", key |-> k, value |-> v, found |-> TRUE, flips |-> 0]

\* PutOverwrite that counts the key again
PutOverwriteCounts(current, update, k, v) ==
    /\ value' = [value EXCEPT ![current] = v]
    /\ updateCache' = update
    /\ length' = length + 1
    /\ UNCHANGED <<forward, key, level>>
    /\ last' = [op |-> "Put", key |-> k, value |-> v, found |-> TRUE, flips |-> 0]

\* PutOverwrite with the level drawn before the key is compared
PutOverwriteDraws(current, update, k, v) ==
    /\ value' = [value EXCEPT ![current] = v]
    /\ updateCache' = update
    /\ UNCHANGED <<forward, key, level, length>>
    /\ last' = [op |-> "Put", key |-> k, value |-> v, found |-> TRUE, flips |-> 1]

\* Put of an existing key, lines 82-85
PutOverwrite(current, update, k, v) ==
    /\ value' = [value EXCEPT ![current] = v]
    /\ updateCache' = update
    /\ UNCHANGED <<forward, key, level, length>>
    /\ last' = [op |-> "Put", key |-> k, value |-> v, found |-> TRUE, flips |-> 0]

\* Put of a new key, lines 87-107
PutInsert(update, k, v, coins) ==
    LET newLevel == randomLevel(coins)
        update2 == raiseUpdate(update, newLevel)
        newNode == newSlot(k)
        made == [forward EXCEPT ![newNode] = makeForward(newLevel + 1)]
    IN /\ level' = IF newLevel > level THEN newLevel ELSE level
       /\ key' = [key EXCEPT ![newNode] = k]
       /\ value' = [value EXCEPT ![newNode] = v]
       /\ forward' = splice(made, update2, newNode, 0, newLevel)
       /\ length' = length + 1
       /\ updateCache' = update2
       /\ last' = [op |-> "Put", key |-> k, value |-> v, found |-> FALSE,
                   flips |-> flipsDrawn(coins)]

PutEngine(k, v, coins) ==
    LET r == findUpdate(header, level, k, updateCache)
        current == forward[r.current][0]
    IN IF current # Nil /\ comparator(key[current], k) = 0
       THEN PutOverwrite(current, r.update, k, v)
       ELSE PutInsert(r.update, k, v, coins)

\* RemoveFound without "s.length--"
RemoveFoundKeepsLength(current, update, k) ==
    /\ forward' = [unlink(forward, update, current, 0, level) EXCEPT ![current] = makeForward(0)]
    /\ key' = [key EXCEPT ![current] = zeroK]
    /\ value' = [value EXCEPT ![current] = zeroV]
    /\ level' = shrinkLevel(unlink(forward, update, current, 0, level), level)
    /\ updateCache' = update
    /\ UNCHANGED length
    /\ last' = [op |-> "Remove", key |-> k, ret |-> TRUE]

\* Remove of a present key, lines 147-160; the unlinked node is garbage and
\* its slot is free again
RemoveFound(current, update, k) ==
    LET spliced == unlink(forward, update, current, 0, level)
    IN /\ forward' = [spliced EXCEPT ![current] = makeForward(0)]
       /\ key' = [key EXCEPT ![current] = zeroK]
       /\ value' = [value EXCEPT ![current] = zeroV]
       /\ level' = shrinkLevel(spliced, level)
       /\ length' = length - 1
       /\ updateCache' = update
       /\ last' = [op |-> "Remove", key |-> k, ret |-> TRUE]

\* RemoveMissing with "s.length--" outside the if
RemoveMissingCounts(update, k) ==
    /\ updateCache' = update
    /\ length' = length - 1
    /\ UNCHANGED <<forward, key, value, level>>
    /\ last' = [op |-> "Remove", key |-> k, ret |-> FALSE]

\* Remove of an absent key, line 163
RemoveMissing(update, k) ==
    /\ updateCache' = update
    /\ UNCHANGED <<forward, key, value, level, length>>
    /\ last' = [op |-> "Remove", key |-> k, ret |-> FALSE]

RemoveEngine(k) ==
    LET r == findUpdate(header, level, k, updateCache)
        current == forward[r.current][0]
    IN IF current # Nil /\ comparator(key[current], k) = 0
       THEN RemoveFound(current, r.update, k)
       ELSE RemoveMissing(r.update, k)

\* what Get(k) returns
GetResult(k) ==
    LET current == forward[find(header, level, k)][0]
    IN IF current # Nil /\ comparator(key[current], k) = 0
       THEN [value |-> value[current], ok |-> TRUE]
       ELSE [value |-> zeroV, ok |-> FALSE]

\* collect with the comparison "< 0": the end bound is left out
RECURSIVE collectBelowEnd(_, _)
collectBelowEnd(current, end) ==
    IF current # Nil /\ comparator(key[current], end) < 0
    THEN <<value[current]>> \o collectBelowEnd(forward[current][0], end)
    ELSE <<>>

\* Range, lines 181-184: the values from current on while the key is <= end
RECURSIVE collect(_, _)
collect(current, end) ==
    IF current # Nil /\ comparator(key[current], end) <= 0
    THEN <<value[current]>> \o collect(forward[current][0], end)
    ELSE <<>>

\* what Range(start, end) returns
RangeResult(start, end) == collect(forward[find(header, level, start)][0], end)

\* the visitors handed to RangeFunc: f returns false on the key stop and true
\* on every other key (NoStop: f always returns true)
NoStop == 0
StopKeys == Keys \cup {NoStop}
f(stop, k, v) == k # stop

\* visit that ignores what the visitor returns
RECURSIVE visitNoBreak(_, _, _)
visitNoBreak(current, end, stop) ==
    IF current # Nil /\ comparator(key[current], end) <= 0
    THEN << <<key[current], value[current]>> >> \o visitNoBreak(forward[current][0], end, stop)
    ELSE <<>>

\* RangeFunc, lines 207-212: the calls of the visitor, in order
RECURSIVE visit(_, _, _)
visit(current, end, stop) ==
    IF current # Nil /\ comparator(key[current], end) <= 0
    THEN IF ~f(stop, key[current], value[current])
         THEN << <<key[current], value[current]>> >>
         ELSE << <<key[current], value[current]>> >> \o visit(forward[current][0], end, stop)
    ELSE <<>>

\* the calls RangeFunc(start, end, f) makes
RangeFuncCalls(start, end, stop) == visit(forward[find(header, level, start)][0], end, stop)

\* Min that tests the level instead of the length
MinResultByLevel ==
    IF level = 0 THEN [key |-> zeroK, value |-> zeroV, ok |-> FALSE]
    ELSE [key |-> key[forward[header][0]], value |-> value[forward[header][0]], ok |-> TRUE]

\* what Min() returns
MinResult ==
    IF length = 0 THEN [key |-> zeroK, value |-> zeroV, ok |-> FALSE]
    ELSE LET minNode == forward[header][0]
         IN [key |-> key[minNode], value |-> value[minNode], ok |-> TRUE]

\* Max, lines 243-245: follow level i to its end
RECURSIVE walkLevel(_, _)
walkLevel(current, i) ==
    IF forward[current][i] # Nil THEN walkLevel(forward[current][i], i) ELSE current

\* walkDown that follows the top level at every turn ("forward[s.level]" for
\* "forward[i]")
RECURSIVE walkDownTopOnly(_, _)
walkDownTopOnly(current, i) ==
    IF i < 0 THEN current ELSE walkDownTopOnly(walkLevel(current, level), i - 1)

\* Max, lines 242-246
RECURSIVE walkDown(_, _)
walkDown(current, i) ==
    IF i < 0 THEN current ELSE walkDown(walkLevel(current, i), i - 1)

\* what Max() returns
MaxResult ==
    IF length = 0 THEN [key |-> zeroK, value |-> zeroV, ok |-> FALSE]
    ELSE LET current == walkDown(header, level)
         IN [key |-> key[current], value |-> value[current], ok |-> TRUE]

\* what Len() and IsEmpty() return
LenResult == length
IsEmptyResult == length = 0

\* ---- the calls ----

Put(k, v, coins) ==
    /\ PutEngine(k, v, coins)
    /\ model' = [model EXCEPT ![k] = v]
    /\ UNCHANGED <<everPut, everRemoved, conc>>

Remove(k) ==
    /\ RemoveEngine(k)
    /\ model' = [model EXCEPT ![k] = Absent]
    /\ UNCHANGED <<everPut, everRemoved, conc>>

\* Put and Remove, also counting the distinct keys Put and Removed
PutCounted(k, v, coins) ==
    /\ PutEngine(k, v, coins)
    /\ model' = [model EXCEPT ![k] = v]
    /\ everPut' = everPut \cup {k}
    /\ UNCHANGED <<everRemoved, conc>>

RemoveCounted(k) ==
    /\ RemoveEngine(k)
    /\ model' = [model EXCEPT ![k] = Absent]
    /\ everRemoved' = IF last'.ret THEN everRemoved \cup {k} ELSE everRemoved
    /\ UNCHANGED <<everPut, conc>>

Get(k) ==
    /\ last' = [op |-> "Get", key |-> k, value |-> GetResult(k).value, ok |-> GetResult(k).ok]
    /\ UNCHANGED <<engine, updateCache, history, conc>>

Range(start, end) ==
    /\ last' = [op |-> "Range", start |-> start, end |-> end, ret |-> RangeResult(start, end)]
    /\ UNCHANGED <<engine, updateCache, history, conc>>

RangeFunc(start, end, stop) ==
    /\ last' = [op |-> "RangeFunc", start |-> start, end |-> end, stop |-> stop,
                calls |-> RangeFuncCalls(start, end, stop)]
    /\ UNCHANGED <<engine, updateCache, history, conc>>

Min ==
    /\ last' = [op |-> "Min", key |-> MinResult.key, value |-> MinResult.value, ok |-> MinResult.ok]
    /\ UNCHANGED <<engine, updateCache, history, conc>>

Max ==
    /\ last' = [op |-> "Max", key |-> MaxResult.key, value |-> MaxResult.value, ok |-> MaxResult.ok]
    /\ UNCHANGED <<engine, updateCache, history, conc>>

LenCall ==
    /\ last' = [op |-> "Len", ret |-> LenResult]
    /\ UNCHANGED <<engine, updateCache, history, conc>>

IsEmpty ==
    /\ last' = [op |-> "IsEmpty", ret |-> IsEmptyResult]
    /\ UNCHANGED <<engine, updateCache, history, conc>>

\* every call of the interface
Next ==
    \/ \E k \in Keys, v \in Values, coins \in CoinFlips : Put(k, v, coins)
    \/ \E k \in Keys : Remove(k)
    \/ \E k \in Keys : Get(k)
    \/ \E start \in Keys, end \in Keys : Range(start, end)
    \/ \E start \in Keys, end \in Keys, stop \in StopKeys : RangeFunc(start, end, stop)
    \/ Min
    \/ Max
    \/ LenCall
    \/ IsEmpty

Spec == Init /\ [][Next]_vars

\* the writers and the point reads
NextPoint ==
    \/ \E k \in Keys, v \in Values, coins \in CoinFlips : Put(k, v, coins)
    \/ \E k \in Keys : Remove(k)
    \/ \E k \in Keys : Get(k)
    \/ Min
    \/ Max
    \/ LenCall
    \/ IsEmpty

SpecPoint == Init /\ [][NextPoint]_vars

\* the writers and Range
NextRange ==
    \/ \E k \in Keys, v \in Values, coins \in CoinFlips : Put(k, v, coins)
    \/ \E k \in Keys : Remove(k)
    \/ \E start \in Keys, end \in Keys : Range(start, end)

SpecRange == Init /\ [][NextRange]_vars

\* the writers and RangeFunc
NextRangeFunc ==
    \/ \E k \in Keys, v \in Values, coins \in CoinFlips : Put(k, v, coins)
    \/ \E k \in Keys : Remove(k)
    \/ \E start \in Keys, end \in Keys, stop \in StopKeys : RangeFunc(start, end, stop)

SpecRangeFunc == Init /\ [][NextRangeFunc]_vars

\* the writers and Len, with the counts of distinct keys Put and Removed
NextCount ==
    \/ \E k \in Keys, v \in Values, coins \in CoinFlips : PutCounted(k, v, coins)
    \/ \E k \in Keys : RemoveCounted(k)
    \/ LenCall

SpecCount == Init /\ [][NextCount]_vars

\* ---- the goroutines: the calls step by step, under SkipMap.mu ----

\* every goroutine of the test makes numWritesPerG Puts
numWritesPerG == MaxKey \div NumThreads
JobKeys == 1..(NumThreads * numWritesPerG)

\* the key of goroutine gID's j-th write is gID*numWritesPerG + j: every key
\* has one goroutine that puts, gets and removes it
owner(k) == ((k - 1) \div numWritesPerG) + 1

\* s.Put(key, "val"+strconv.Itoa(key)): the value put is a function of the key
valueOf(k) == IF k % 2 = 1 THEN "a" ELSE "b"

WriteOps == {"Put", "Remove"}
ReadOps == {"Get", "Range", "RangeFunc", "Min", "Max", "Len", "IsEmpty"}

\* the calls with their arguments
ReadCalls ==
    {[op |-> "Get", key |-> k] : k \in Keys}
    \cup {[op |-> "Range", start |-> start, end |-> end] : start \in Keys, end \in Keys}
    \cup {[op |-> o] : o \in {"Min", "Max", "Len", "IsEmpty"}}
RangeFuncCallsOf == {[op |-> "RangeFunc", start |-> start, end |-> end] : start \in Keys, end \in Keys}

\* the call of goroutine t is one its visitor made
nested(t) == "outer" \in DOMAIN loc[t]

\* the frame under the call of goroutine t
frame(t) == [j \in DOMAIN loc[t] \cap {"outer"} |-> loc[t][j]]

\* goroutine t is in call c: the call its program names, or any call when the
\* program leaves it open (the arguments are bound where the body first uses them)
bound(t, c) ==
    \/ loc[t].op = "none"
    \/ (DOMAIN c \subseteq DOMAIN loc[t] /\ \A j \in DOMAIN c : loc[t][j] = c[j])

\* a call returns: to the visitor that made it, or to the goroutine
returnPc(t) == IF nested(t) THEN "Visit" ELSE "idle"
returnLoc(t) == IF nested(t) THEN loc[t].outer ELSE NoCall

\* goroutine t calls Put or Remove (kind "write") or one of the seven reads
Call(t, kind) ==
    /\ pc[t] = "idle"
    /\ pc' = [pc EXCEPT ![t] = IF kind = "write" THEN "Lock" ELSE "RLock"]
    /\ UNCHANGED <<engine, updateCache, last, history, loc, mu, todo, written, committed>>

\* Lock that takes the writer's mutex whoever holds it
lockFreeAlways(m) == TRUE

\* Lock that looks at the read holds and not at the writer's mutex
lockFreeOfReaders(m) == \A u \in Threads : m.readers[u] = 0

\* sync.RWMutex: Lock can take the writer's mutex
lockFree(m) == m.w = NoThread

\* s.mu.Lock(), first half: take the writer's mutex; readers that come later wait
Lock(t) ==
    /\ pc[t] = "Lock"
    /\ lockFree(mu)
    /\ mu' = [mu EXCEPT !.w = t]
    /\ pc' = [pc EXCEPT ![t] = "LockWait"]
    /\ UNCHANGED <<engine, updateCache, last, history, loc, todo, written, committed>>

\* s.mu.Lock(), second half: wait for the read holds to be released
LockEnter(t) ==
    /\ pc[t] = "LockWait"
    /\ \A u \in Threads : mu.readers[u] = 0
    /\ pc' = [pc EXCEPT ![t] = "Locked"]
    /\ UNCHANGED <<engine, updateCache, last, history, loc, mu, todo, written, committed>>

\* RLock that is admitted while a writer holds or waits
readAdmittedAlways(m) == TRUE

\* sync.RWMutex: RLock is admitted
readAdmitted(m) == m.w = NoThread

\* s.mu.RLock(): a read hold, or a wait for the writer to unlock
RLock(t) ==
    /\ pc[t] = "RLock"
    /\ IF readAdmitted(mu)
       THEN /\ mu' = [mu EXCEPT !.readers[t] = @ + 1]
            /\ pc' = [pc EXCEPT ![t] = "RLocked"]
       ELSE /\ mu' = [mu EXCEPT !.rwait = @ \cup {t}]
            /\ pc' = [pc EXCEPT ![t] = "RBlocked"]
    /\ UNCHANGED <<engine, updateCache, last, history, loc, todo, written, committed>>

\* Unlock that keeps the writer's mutex (the deferred Unlock left out)
unlockedKeepsWriter(m) == m

\* sync.RWMutex after Unlock: the blocked readers hold, the mutex is free
unlocked(m) ==
    [w |-> NoThread,
     readers |-> [u \in Threads |-> m.readers[u] + (IF u \in m.rwait THEN 1 ELSE 0)],
     rwait |-> {}]

\* sync.RWMutex after RUnlock by t
runlocked(m, t) == [m EXCEPT !.readers[t] = @ - 1]

\* Put, lines 70-100: the search, then the overwrite and return, or the level
\* drawn, the frontier raised and the node made
PutSearch(t, k, v, coins) ==
    /\ pc[t] = "Locked" /\ bound(t, [op |-> "Put", key |-> k, value |-> v])
    /\ LET r == findUpdate(header, level, k, updateCache)
           current == forward[r.current][0]
       IN IF current # Nil /\ comparator(key[current], k) = 0
          THEN /\ value' = [value EXCEPT ![current] = v]
               /\ updateCache' = r.update
               /\ written' = 0..level
               /\ loc' = [loc EXCEPT ![t] = [op |-> "Put", key |-> k, value |-> v, found |-> TRUE,
                                             flips |-> 0] @@ frame(t)]
               /\ pc' = [pc EXCEPT ![t] = "Unlock"]
               /\ UNCHANGED <<forward, key, level, length>>
          ELSE LET newLevel == randomLevel(coins)
                   newNode == newSlot(k)
               IN /\ level' = IF newLevel > level THEN newLevel ELSE level
                  /\ updateCache' = raiseUpdate(r.update, newLevel)
                  /\ written' = 0..(IF newLevel > level THEN newLevel ELSE level)
                  /\ key' = [key EXCEPT ![newNode] = k]
                  /\ value' = [value EXCEPT ![newNode] = v]
                  /\ forward' = [forward EXCEPT ![newNode] = makeForward(newLevel + 1)]
                  /\ loc' = [loc EXCEPT ![t] = [op |-> "Put", key |-> k, value |-> v, found |-> FALSE,
                                                flips |-> flipsDrawn(coins), newNode |-> newNode,
                                                newLevel |-> newLevel, i |-> 0] @@ frame(t)]
                  /\ pc' = [pc EXCEPT ![t] = "PutSplice"]
                  /\ UNCHANGED length
    /\ UNCHANGED <<last, history, mu, todo, committed>>

\* Put, lines 102-105: one turn of the loop, linking the node in at level i
PutSplice(t) ==
    /\ pc[t] = "PutSplice"
    /\ forward' = splice(forward, updateCache, loc[t].newNode, loc[t].i, loc[t].i)
    /\ loc' = [loc EXCEPT ![t].i = @ + 1]
    /\ pc' = [pc EXCEPT ![t] = IF loc[t].i = loc[t].newLevel THEN "PutCount" ELSE "PutSplice"]
    /\ UNCHANGED <<key, value, level, length, updateCache, last, history, mu, todo, written, committed>>

\* Put, line 107: s.length++
PutCount(t) ==
    /\ pc[t] = "PutCount"
    /\ length' = length + 1
    /\ pc' = [pc EXCEPT ![t] = "Unlock"]
    /\ UNCHANGED <<forward, key, value, level, updateCache, last, history, loc, mu, todo, written, committed>>

\* Remove, lines 135-147: the search and the test of the node found
RemoveSearch(t, k) ==
    /\ pc[t] = "Locked" /\ bound(t, [op |-> "Remove", key |-> k])
    /\ LET r == findUpdate(header, level, k, updateCache)
           current == forward[r.current][0]
           found == current # Nil /\ comparator(key[current], k) = 0
       IN /\ updateCache' = r.update
          /\ written' = 0..level
          /\ loc' = [loc EXCEPT ![t] = [op |-> "Remove", key |-> k, ret |-> found, current |-> current,
                                        i |-> 0] @@ frame(t)]
          /\ pc' = [pc EXCEPT ![t] = IF found THEN "RemoveUnlink" ELSE "Unlock"]
    /\ UNCHANGED <<engine, last, history, mu, todo, committed>>

\* Remove, lines 148-153: one turn of the loop, unlinking the node at level i
\* or leaving the loop at the first level that does not hold it
RemoveUnlink(t) ==
    /\ pc[t] = "RemoveUnlink"
    /\ LET i == loc[t].i
           leave == forward[updateCache[i]][i] # loc[t].current
       IN /\ forward' = unlink(forward, updateCache, loc[t].current, i, i)
          /\ loc' = [loc EXCEPT ![t].i = @ + 1]
          /\ pc' = [pc EXCEPT ![t] = IF leave \/ i = level THEN "RemoveShrink" ELSE "RemoveUnlink"]
    /\ UNCHANGED <<key, value, level, length, updateCache, last, history, mu, todo, written, committed>>

\* RemoveShrink without "s.length--"
RemoveShrinkKeepsLength(t) ==
    /\ pc[t] = "RemoveShrink"
    /\ level' = shrinkLevel(forward, level)
    /\ forward' = [forward EXCEPT ![loc[t].current] = makeForward(0)]
    /\ key' = [key EXCEPT ![loc[t].current] = zeroK]
    /\ value' = [value EXCEPT ![loc[t].current] = zeroV]
    /\ pc' = [pc EXCEPT ![t] = "Unlock"]
    /\ UNCHANGED <<length, updateCache, last, history, loc, mu, todo, written, committed>>

\* Remove, lines 155-160: the level lowered and s.length--; the node is garbage
RemoveShrink(t) ==
    /\ pc[t] = "RemoveShrink"
    /\ level' = shrinkLevel(forward, level)
    /\ length' = length - 1
    /\ forward' = [forward EXCEPT ![loc[t].current] = makeForward(0)]
    /\ key' = [key EXCEPT ![loc[t].current] = zeroK]
    /\ value' = [value EXCEPT ![loc[t].current] = zeroV]
    /\ pc' = [pc EXCEPT ![t] = "Unlock"]
    /\ UNCHANGED <<updateCache, last, history, loc, mu, todo, written, committed>>

\* what a Put or a Remove that returns leaves in the history
modelAfter(c) ==
    IF c.op = "Put" THEN [model EXCEPT ![c.key] = c.value]
    ELSE IF c.ret THEN [model EXCEPT ![c.key] = Absent] ELSE model

\* defer s.mu.Unlock(): Put or Remove returns (found or ret is what it returns)
Unlock(t) ==
    /\ pc[t] = "Unlock"
    /\ mu' = unlocked(mu)
    /\ pc' = [u \in Threads |->
                IF u = t THEN returnPc(t)
                ELSE IF u \in mu.rwait \ unlocked(mu).rwait THEN "RLocked" ELSE pc[u]]
    /\ loc' = [loc EXCEPT ![t] = returnLoc(t)]
    /\ model' = modelAfter(loc[t])
    /\ written' = {}
    /\ committed' = <<forward, key, value, level, length>>
    /\ UNCHANGED <<engine, updateCache, last, everPut, everRemoved, todo>>

\* what the read call c returns
readResult(c) ==
    CASE c.op = "Get" -> GetResult(c.key)
      [] c.op = "Range" -> [ret |-> RangeResult(c.start, c.end)]
      [] c.op = "Min" -> MinResult
      [] c.op = "Max" -> MaxResult
      [] c.op = "Len" -> [ret |-> LenResult]
      [] c.op = "IsEmpty" -> [ret |-> IsEmptyResult]

\* Get, Range, Min, Max, Len, IsEmpty: the body, which returns readResult(c),
\* and the deferred RUnlock
Read(t, c) ==
    /\ pc[t] = "RLocked" /\ bound(t, c)
    /\ mu' = runlocked(mu, t)
    /\ pc' = [pc EXCEPT ![t] = returnPc(t)]
    /\ loc' = [loc EXCEPT ![t] = returnLoc(t)]
    /\ UNCHANGED <<engine, updateCache, last, history, todo, written, committed>>

\* RangeFunc, lines 195-205: the search for the first node of the range
RangeFuncSeek(t, c) ==
    /\ pc[t] = "RLocked" /\ bound(t, c) /\ ~nested(t)
    /\ loc' = [loc EXCEPT ![t] = [op |-> "RangeFunc", end |-> c.end,
                                   current |-> forward[find(header, level, c.start)][0]]]
    /\ pc' = [pc EXCEPT ![t] = "Visit"]
    /\ UNCHANGED <<engine, updateCache, last, history, mu, todo, written, committed>>

\* RangeFunc, line 207: the loop goes on
visiting(c) == c.current # Nil /\ comparator(key[c.current], c.end) <= 0

\* RangeFunc, lines 207-212: one turn of the loop, a call of the visitor that
\* returns answer; on false the loop is left
Visit(t, answer) ==
    /\ pc[t] = "Visit" /\ visiting(loc[t])
    /\ loc' = [loc EXCEPT ![t].current = IF answer THEN forward[loc[t].current][0] ELSE Nil]
    /\ UNCHANGED <<engine, updateCache, last, history, pc, mu, todo, written, committed>>

\* RangeFunc returns, with the deferred RUnlock
RangeFuncReturn(t) ==
    /\ pc[t] = "Visit" /\ ~visiting(loc[t])
    /\ mu' = runlocked(mu, t)
    /\ pc' = [pc EXCEPT ![t] = "idle"]
    /\ loc' = [loc EXCEPT ![t] = NoCall]
    /\ UNCHANGED <<engine, updateCache, last, history, todo, written, committed>>

\* the visitor of goroutine t, called on a pair, calls the same map
VisitorCalls(t, kind) ==
    /\ pc[t] = "Visit" /\ visiting(loc[t])
    /\ loc' = [loc EXCEPT ![t] = [op |-> "none", outer |-> loc[t]]]
    /\ pc' = [pc EXCEPT ![t] = IF kind = "write" THEN "Lock" ELSE "RLock"]
    /\ UNCHANGED <<engine, updateCache, last, history, mu, todo, written, committed>>

\* ---- TestSkipMap_ConcurrentAccess ----

\* the Puts of goroutine t, its keys in rising order
RECURSIVE putJobs(_, _)
putJobs(t, k) ==
    IF k \notin JobKeys THEN <<>>
    ELSE (IF owner(k) = t THEN <<[op |-> "Put", key |-> k, value |-> valueOf(k)]>> ELSE <<>>)
         \o putJobs(t, k + 1)

\* the second round of goroutine t: a Get of each of its keys, and a Remove of
\* the key when it is one of R (the test removes every other key)
RECURSIVE readJobs(_, _, _)
readJobs(t, k, R) ==
    IF k \notin JobKeys THEN <<>>
    ELSE (IF owner(k) = t
          THEN <<[op |-> "Get", key |-> k]>> \o
               (IF k \in R THEN <<[op |-> "Remove", key |-> k]>> ELSE <<>>)
          ELSE <<>>)
         \o readJobs(t, k + 1, R)

\* the test starts its goroutines on the new map
Spawn(R) ==
    /\ last.op = "New"
    /\ \A t \in Threads : todo[t] = <<>>
    /\ todo' = [t \in Threads |-> putJobs(t, 1) \o <<[op |-> "Wait"]>> \o readJobs(t, 1, R)]
    /\ last' = [op |-> "Spawn", removes |-> R]
    /\ UNCHANGED <<engine, updateCache, history, pc, loc, mu, written, committed>>

\* goroutine t makes the next call of its program
StartJob(t) ==
    /\ pc[t] = "idle"
    /\ todo[t] # <<>> /\ Head(todo[t]).op # "Wait"
    /\ loc' = [loc EXCEPT ![t] = Head(todo[t])]
    /\ pc' = [pc EXCEPT ![t] = IF Head(todo[t]).op \in WriteOps THEN "Lock" ELSE "RLock"]
    /\ todo' = [todo EXCEPT ![t] = Tail(@)]
    /\ UNCHANGED <<engine, updateCache, last, history, mu, written, committed>>

\* every goroutine has made its Puts
PutsDone == \A t \in Threads : pc[t] = "idle" /\ todo[t] # <<>> /\ Head(todo[t]).op = "Wait"

\* wg.Wait() between the two rounds
Wait ==
    /\ PutsDone
    /\ todo' = [t \in Threads |-> Tail(todo[t])]
    /\ UNCHANGED <<engine, updateCache, last, history, pc, loc, mu, written, committed>>

\* the test is over
AllDone == last.op = "Spawn" /\ \A t \in Threads : pc[t] = "idle" /\ todo[t] = <<>>

NextAccess ==
    \/ \E R \in SUBSET JobKeys : Spawn(R)
    \/ \E t \in Threads : StartJob(t)
    \/ Wait
    \/ \E t \in Threads : Lock(t)
    \/ \E t \in Threads : LockEnter(t)
    \/ \E t \in Threads : RLock(t)
    \/ \E t \in Threads, k \in Keys, v \in Values, coins \in CoinFlips : PutSearch(t, k, v, coins)
    \/ \E t \in Threads : PutSplice(t)
    \/ \E t \in Threads : PutCount(t)
    \/ \E t \in Threads, k \in Keys : RemoveSearch(t, k)
    \/ \E t \in Threads : RemoveUnlink(t)
    \/ \E t \in Threads : RemoveShrink(t)
    \/ \E t \in Threads : Unlock(t)
    \/ \E t \in Threads, c \in ReadCalls : Read(t, c)

SpecAccess == Init /\ [][NextAccess]_vars

\* ---- goroutines that call whatever they like ----

CallKinds == {"write", "read"}

NextShared ==
    \/ \E t \in Threads, kind \in CallKinds : Call(t, kind)
    \/ \E t \in Threads : Lock(t)
    \/ \E t \in Threads : LockEnter(t)
    \/ \E t \in Threads : RLock(t)
    \/ \E t \in Threads, k \in Keys, coins \in CoinFlips : PutSearch(t, k, valueOf(k), coins)
    \/ \E t \in Threads : PutSplice(t)
    \/ \E t \in Threads : PutCount(t)
    \/ \E t \in Threads, k \in Keys : RemoveSearch(t, k)
    \/ \E t \in Threads : RemoveUnlink(t)
    \/ \E t \in Threads : RemoveShrink(t)
    \/ \E t \in Threads : Unlock(t)
    \/ \E t \in Threads, c \in ReadCalls : Read(t, c)
    \/ \E t \in Threads, c \in RangeFuncCallsOf : RangeFuncSeek(t, c)
    \/ \E t \in Threads, answer \in BOOLEAN : Visit(t, answer)
    \/ \E t \in Threads : RangeFuncReturn(t)

SpecShared == Init /\ [][NextShared]_vars

\* ---- goroutines whose visitors may call the map ----

\* the keys and the calls of these goroutines
LiveKeys == {MaxKey}
LiveReads == {[op |-> "Get", key |-> k] : k \in LiveKeys} \cup {[op |-> "Len"]}
LiveRangeFuncs == {[op |-> "RangeFunc", start |-> k, end |-> k] : k \in LiveKeys}

\* the steps of goroutine t that the scheduler owes it once it is in a call
\* and does not wait for the lock: every goroutine that can run does run
Step(t) ==
    \/ LockEnter(t)
    \/ RLock(t)
    \/ \E k \in LiveKeys, coins \in CoinFlips : PutSearch(t, k, valueOf(k), coins)
    \/ PutSplice(t)
    \/ PutCount(t)
    \/ \E k \in LiveKeys : RemoveSearch(t, k)
    \/ RemoveUnlink(t)
    \/ RemoveShrink(t)
    \/ Unlock(t)
    \/ \E c \in LiveReads : Read(t, c)
    \/ \E c \in LiveRangeFuncs : RangeFuncSeek(t, c)
    \/ \E answer \in BOOLEAN : Visit(t, answer)
    \/ RangeFuncReturn(t)

NextLive ==
    \/ \E t \in Threads, kind \in CallKinds : Call(t, kind)
    \/ \E t \in Threads, kind \in CallKinds : VisitorCalls(t, kind)
    \/ \E t \in Threads : Lock(t)
    \/ \E t \in Threads : LockEnter(t)
    \/ \E t \in Threads : RLock(t)
    \/ \E t \in Threads, k \in LiveKeys, coins \in CoinFlips : PutSearch(t, k, valueOf(k), coins)
    \/ \E t \in Threads : PutSplice(t)
    \/ \E t \in Threads : PutCount(t)
    \/ \E t \in Threads, k \in LiveKeys : RemoveSearch(t, k)
    \/ \E t \in Threads : RemoveUnlink(t)
    \/ \E t \in Threads : RemoveShrink(t)
    \/ \E t \in Threads : Unlock(t)
    \/ \E t \in Threads, c \in LiveReads : Read(t, c)
    \/ \E t \in Threads, c \in LiveRangeFuncs : RangeFuncSeek(t, c)
    \/ \E t \in Threads, answer \in BOOLEAN : Visit(t, answer)
    \/ \E t \in Threads : RangeFuncReturn(t)

\* the Go scheduler runs every goroutine that can run (WF); sync.Mutex hands
\* the mutex to a waiter that has waited long (starvation mode), so a Lock
\* that can be taken again and again is taken (SF)
FairLive == \A t \in Threads : WF_vars(Step(t)) /\ SF_vars(Lock(t))

SpecLive == Init /\ [][NextLive]_vars /\ FairLive

\* ---- properties ----

\* the nodes of the level-i chain from node n on, at most fuel of them
RECURSIVE chainFrom(_, _, _)
chainFrom(n, i, fuel) ==
    IF n = Nil \/ fuel = 0 THEN <<>>
    ELSE <<n>> \o chainFrom(forward[n][i], i, fuel - 1)

\* the level-0 traversal from the header (one node more than the heap holds
\* shows a cycle as a repeated node)
Level0Chain == chainFrom(forward[header][0], 0, Cardinality(NodeIds) + 1)

\* the keys a level-0 traversal yields
Level0Keys == [j \in 1..Len(Level0Chain) |-> key[Level0Chain[j]]]

\* key k is in the map
Present(k) == \E j \in 1..Len(Level0Keys) : Level0Keys[j] = k

\* what Get returns for a key the abstract map holds or does not hold
ModelGet(k) ==
    IF model[k] = Absent THEN [value |-> zeroV, ok |-> FALSE]
    ELSE [value |-> model[k], ok |-> TRUE]

\* C1: after any sequence of Put and Remove, the level-0 traversal yields
\* keys in strictly increasing comparator order, so no two nodes hold equal keys
C1_OrderedNoDuplicates ==
    \A j \in 1..(Len(Level0Keys) - 1) : comparator(Level0Keys[j], Level0Keys[j + 1]) < 0

\* C1 witness: a Put has just inserted a new smallest key in front of a node
C1_Witness ==
    /\ last.op = "Put" /\ ~last.found /\ last.key = 1
    /\ Level0Keys = <<1, 2>>

\* C2: Get(k) returns (v, true) exactly when the last Put or Remove on k was
\* Put(k, v), and not-found when k was never Put or was last Removed
C2_GetIsAbstractMap ==
    /\ \A k \in Keys : GetResult(k) = ModelGet(k)
    /\ last.op = "Get" => [value |-> last.value, ok |-> last.ok] = ModelGet(last.key)

\* C2 witness: a Get has found the greatest key while a smaller key is absent
C2_Witness ==
    /\ last.op = "Get" /\ last.ok /\ last.key = MaxKey /\ last.value = "b"
    /\ model[1] = Absent

\* C3: a Put of a key straight after a Put of the same key leaves Len() as it
\* was, and Get of the key then returns the second value
C3_PutTwice ==
    [][(last.op = "Put" /\ last'.op = "Put" /\ last'.key = last.key)
        => /\ GetResult(last.key)' = [value |-> last'.value, ok |-> TRUE]
           /\ LenResult' = LenResult]_vars

\* C3 witness: a Put has overwritten a key, and Get returns the value it put
C3_Witness ==
    /\ last.op = "Put" /\ last.found /\ last.value = "b"
    /\ GetResult(last.key) = [value |-> "b", ok |-> TRUE]
    /\ LenResult = 2

\* the keys Removed and not Put again since
RemovedAndGone == {k \in everRemoved : model[k] = Absent}

\* C4 as stated: Len() is the number of distinct keys ever Put minus the
\* number of distinct keys ever successfully Removed
C4_LenIsPutMinusRemoved ==
    /\ LenResult = Cardinality(everPut) - Cardinality(everRemoved)
    /\ last.op = "Len" => last.ret = Cardinality(everPut) - Cardinality(everRemoved)

\* C4 amended: Len() is the number of distinct keys ever Put minus the number
\* of those that were Removed and not Put again since
C4_LenIsPutMinusGone ==
    /\ LenResult = Cardinality(everPut) - Cardinality(RemovedAndGone)
    /\ last.op = "Len" => last.ret = Cardinality(everPut) - Cardinality(RemovedAndGone)

\* C4 witness: Len() is called while a key that was Removed is in the map again
C4_Witness ==
    /\ last.op = "Len" /\ last.ret = 1
    /\ \E k \in everRemoved : model[k] # Absent

\* C5: Remove(k) of a key that is not in the map returns false and leaves
\* Len(), the level, every forward link and every node's key and value as they were
C5_RemoveAbsentChangesNothing ==
    [][(last'.op = "Remove" /\ ~Present(last'.key))
        => /\ ~last'.ret
           /\ LenResult' = LenResult
           /\ UNCHANGED <<forward, key, value, level, length>>]_vars

\* C5 witness: a Remove has returned false on a map that holds another key
C5_Witness ==
    /\ last.op = "Remove" /\ ~last.ret /\ last.key = 1
    /\ Level0Keys = <<2>>

\* C6: Remove(k) of a key that is in the map returns true, makes Len() one
\* less and Get(k) not-found, and leaves Get of every other key as it was
C6_RemovePresent ==
    [][\A k \in Keys :
        (last'.op = "Remove" /\ last'.key = k /\ Present(k))
        => /\ last'.ret
           /\ LenResult' = LenResult - 1
           /\ ~GetResult(k)'.ok
           /\ \A j \in Keys \ {k} : GetResult(j)' = GetResult(j)]_vars

\* C6 witness: a Remove has returned true and a greater key is still in the map
C6_Witness ==
    /\ last.op = "Remove" /\ last.ret /\ last.key = 1
    /\ GetResult(1) = [value |-> zeroV, ok |-> FALSE]
    /\ GetResult(2).ok

\* the keys the abstract map holds
ModelKeys == {k \in Keys : model[k] # Absent}

\* the values the abstract map holds for the keys lo..hi, in key order
RECURSIVE ModelRange(_, _)
ModelRange(lo, hi) ==
    IF lo > hi THEN <<>>
    ELSE (IF model[lo] = Absent THEN <<>> ELSE <<model[lo]>>) \o ModelRange(lo + 1, hi)

\* the visits of the keys lo..hi the abstract map holds, in key order, up to
\* and including the first one the visitor answers false
RECURSIVE ModelVisits(_, _, _)
ModelVisits(lo, hi, stop) ==
    IF lo > hi THEN <<>>
    ELSE IF model[lo] = Absent THEN ModelVisits(lo + 1, hi, stop)
    ELSE IF f(stop, lo, model[lo]) THEN << <<lo, model[lo]>> >> \o ModelVisits(lo + 1, hi, stop)
    ELSE << <<lo, model[lo]>> >>

\* C7: Range(start, end) returns the values of the keys in the map with
\* start <= k <= end, in increasing key order, and nothing when start > end
C7_RangeInclusiveOrdered ==
    /\ \A start \in Keys, end \in Keys :
        /\ RangeResult(start, end) = ModelRange(start, end)
        /\ start > end => RangeResult(start, end) = <<>>
    /\ last.op = "Range" => last.ret = ModelRange(last.start, last.end)

\* C7 witness: a Range over both bounds has returned two values in key order
C7_Witness ==
    /\ last.op = "Range" /\ last.start = 1 /\ last.end = 2
    /\ last.ret = <<"b", "a">>
    /\ model[1] = "b" /\ model[2] = "a"

\* C8: RangeFunc(start, end, f) calls f on the keys in the map within
\* [start, end] in increasing key order, the first call f answers false
\* being the last; with f always true the values are those Range returns
C8_RangeFuncStopsAtFalse ==
    /\ \A start \in Keys, end \in Keys :
        /\ \A stop \in StopKeys :
            RangeFuncCalls(start, end, stop) = ModelVisits(start, end, stop)
        /\ [j \in 1..Len(RangeFuncCalls(start, end, NoStop)) |->
                RangeFuncCalls(start, end, NoStop)[j][2]] = RangeResult(start, end)
    /\ last.op = "RangeFunc" => last.calls = ModelVisits(last.start, last.end, last.stop)

\* C8 witness: a RangeFunc over two keys of the map has stopped at the first
C8_Witness ==
    /\ last.op = "RangeFunc" /\ last.start = 1 /\ last.end = 2 /\ last.stop = 1
    /\ Len(last.calls) = 1 /\ last.calls[1][1] = 1
    /\ Present(2)

\* the result that reports not-found
NotFound == [key |-> zeroK, value |-> zeroV, ok |-> FALSE]

\* C9: Min() and Max() report not-found, with zero key and value, when the map
\* holds no key (fresh or emptied), and found when it holds one
C9_MinMaxFoundIffNonEmpty ==
    /\ ModelKeys = {} => MinResult = NotFound /\ MaxResult = NotFound
    /\ ModelKeys # {} => MinResult.ok /\ MaxResult.ok
    /\ last.op \in {"Min", "Max"} =>
        /\ last.ok = (ModelKeys # {})
        /\ ~last.ok => last.key = zeroK /\ last.value = zeroV

\* C9 witness: Max() has reported not-found on a map that was emptied (the
\* frontier of level 1 was written by a Put, and only a Remove lowers the level)
C9_Witness ==
    /\ last.op = "Max" /\ ~last.ok
    /\ updateCache[1] = header /\ level = 0

\* the smallest and the greatest key of a non-empty set
Least(S) == CHOOSE k \in S : \A j \in S : k <= j
Greatest(S) == CHOOSE k \in S : \A j \in S : j <= k

\* C10: on a non-empty map Min() returns the smallest key and Max() the
\* greatest, each with its current value
C10_MinMaxAreExtremes ==
    ModelKeys # {} =>
        /\ MinResult = [key |-> Least(ModelKeys), value |-> model[Least(ModelKeys)], ok |-> TRUE]
        /\ MaxResult = [key |-> Greatest(ModelKeys), value |-> model[Greatest(ModelKeys)], ok |-> TRUE]
        /\ last.op = "Min" => last.key = Least(ModelKeys) /\ last.value = model[last.key]
        /\ last.op = "Max" => last.key = Greatest(ModelKeys) /\ last.value = model[last.key]

\* C10 witness: Max() has returned the greatest key, a node of level 0 that
\* follows a node of level 1, the keys having been Put greatest first
C10_Witness ==
    /\ last.op = "Max" /\ last.ok /\ last.key = 2 /\ last.value = "b"
    /\ level = 1 /\ key[forward[header][1]] = 1
    /\ forward[forward[header][1]][1] = Nil

\* C15: the length field is the number of nodes on the level-0 chain, so it is
\* 0 exactly when the header's level-0 forward reference is nil
C15_LengthIsLevel0Count ==
    /\ length = Len(Level0Chain)
    /\ (length = 0) <=> (forward[header][0] = Nil)
    /\ last.op = "Len" => last.ret = Len(Level0Chain)

\* C15 witness: a Remove has emptied a map that held a node, and Len() of the
\* empty map has been taken
C15_Witness ==
    /\ last.op = "Len" /\ last.ret = 0
    /\ everRemoved # {} /\ forward[header][0] = Nil

\* the indices at which the header's forward reference is not nil
HeaderLevels == {i \in Levels : forward[header][i] # Nil}

C16_LevelInv ==
    IF HeaderLevels = {} THEN level = 0 /\ length = 0
    ELSE level \in HeaderLevels /\ \A i \in HeaderLevels : i <= level

\* a step that lowers level is a Remove that found its key, and every level it
\* went past has a nil header forward reference
C16_LevelStep ==
    level' < level =>
        /\ last'.op = "Remove" /\ last'.ret
        /\ \A i \in (level' + 1)..level : forward'[header][i] = Nil /\ forward[header][i] # Nil

RECURSIVE chainAt(_, _, _)
chainAt(n, i, fuel) ==
    IF n = Nil \/ fuel = 0 THEN <<>>
    ELSE IF i \notin DOMAIN forward[n] THEN <<n>>
    ELSE <<n>> \o chainAt(forward[n][i], i, fuel - 1)

\* the level-i chain from the header
LevelChain(i) == chainAt(forward[header][i], i, Cardinality(NodeIds) + 1)

\* the nodes of a sequence of nodes
NodesOf(chain) == {chain[j] : j \in 1..Len(chain)}

\* the keys along a sequence of nodes increase strictly
StrictlyIncreasing(chain) ==
    \A j \in 1..(Len(chain) - 1) : key[chain[j]] < key[chain[j + 1]]

\* C17: at every level the chain from the header is strictly increasing in key
\* (so not cyclic) and made of nodes of the level-0 chain only; the node a
\* Remove has unlinked is on no chain
C17_ChainsAreSubsequences ==
    /\ \A i \in Levels :
        /\ StrictlyIncreasing(LevelChain(i))
        /\ NodesOf(LevelChain(i)) \subseteq NodesOf(Level0Chain)
        /\ \A n \in NodesOf(LevelChain(i)) : ~free(n) /\ i \in DOMAIN forward[n]
        /\ (last.op = "Remove" /\ last.ret) =>
               \A n \in NodesOf(LevelChain(i)) : key[n] # last.key
    /\ \A i \in Levels : i > level => LevelChain(i) = <<>>

\* C17 witness: a Remove has unlinked the first of two nodes of level 1, and the other
\* node of level 1 remains on the level-1 chain
C17_Witness ==
    /\ last.op = "Remove" /\ last.ret /\ last.key = 1
    /\ level = 1 /\ Len(LevelChain(1)) = 1 /\ key[forward[header][1]] = 2

\* C18: a Put of a key that is present changes the value of the node of that
\* key and nothing else: forward links, keys, level and length stay, the other
\* values stay, and no random level is drawn
C18_PutPresentChangesValueOnly ==
    [][\A k \in Keys :
        (last'.op = "Put" /\ last'.key = k /\ Present(k)) =>
            /\ forward' = forward /\ key' = key
            /\ level' = level /\ length' = length
            /\ last'.found /\ last'.flips = 0
            /\ \A n \in NodeIds :
                 value'[n] = IF key[n] = k THEN last'.value ELSE value[n]]_vars

\* C18 witness: a Put has overwritten the value "a" of key 1, a node of level 1
\* that is followed by a node of level 0, with "b"
C18_Witness ==
    /\ last.op = "Put" /\ last.found /\ last.flips = 0 /\ last.key = 1
    /\ level = 1 /\ length = 2
    /\ key[forward[header][1]] = 1 /\ value[forward[header][1]] = "b"
    /\ model[2] = "a"

\* node n (the header or an allocated node) has a slot i
registered(n, i) == (n = header \/ (n \in NodeIds /\ ~free(n))) /\ i \in DOMAIN forward[n]

\* every reference an operation follows at level i leads to a node that has a
\* slot i
C20_WellFormed ==
    /\ level \in Levels
    /\ DOMAIN forward[header] = Levels
    /\ DOMAIN updateCache = Levels
    /\ \A n \in NodeIds : free(n) \/ \E h \in Levels : DOMAIN forward[n] = 0..h
    /\ \A n \in NodeIds \cup {header} : \A i \in DOMAIN forward[n] :
         forward[n][i] = Nil \/ registered(forward[n][i], i)
    /\ \A i \in 0..level : updateCache[i] = Nil \/ registered(updateCache[i], i)
    /\ length # 0 => registered(forward[header][0], 0)
    /\ (last.op = "Put" /\ ~last.found) =>
         /\ last.flips \in 1..maxLevel
         /\ \E n \in NodeIds :
              /\ key[n] = last.key
              /\ DOMAIN forward[n] = 0..(last.flips - 1)
              /\ \A i \in DOMAIN forward[n] :
                   registered(updateCache[i], i) /\ forward[updateCache[i]][i] = n

\* the forward slice of a node keeps its length as long as the node lives
C20_ForwardLengthFixed ==
    \A n \in NodeIds :
        (~free(n) /\ DOMAIN forward'[n] # {}) => DOMAIN forward'[n] = DOMAIN forward[n]

\* C20: no operation indexes out of bounds or follows a nil reference: level is
\* in 0..maxLevel-1, a node's forward slice has its drawn level + 1 slots and
\* keeps them, and every reference followed at level i has a slot i
C20_NoOutOfBounds == [](C20_WellFormed) /\ [][C20_ForwardLengthFixed]_vars

\* C20 witness: a Put has drawn the highest level there is for a key that goes
\* behind a node of level 0, so the splice went through the header above level 0
C20_Witness ==
    /\ last.op = "Put" /\ ~last.found /\ last.flips = maxLevel /\ last.key = 2
    /\ level = maxLevel - 1
    /\ updateCache[0] # header /\ updateCache[maxLevel - 1] = header

\* C11: once each of the N goroutines has made its M Puts, all of distinct
\* keys, Len() is N*M and Get finds every key with the value put
C11_ConcurrentPuts ==
    PutsDone =>
        /\ LenResult = NumThreads * numWritesPerG
        /\ \A k \in JobKeys : GetResult(k) = [value |-> valueOf(k), ok |-> TRUE]

\* C11 witness: the Puts are done; the node of key 1 has the highest level and
\* the node of key 2 the lowest, and the Put of key 1 was the later one (the
\* frontier it left at level 0 is the header)
C11_Witness ==
    /\ PutsDone
    /\ level = maxLevel - 1 /\ key[forward[header][level]] = 1
    /\ updateCache[0] = header /\ Present(2)
    /\ LenResult = NumThreads * numWritesPerG

\* C12: while goroutines Get and Remove their own keys, a Get of a key its
\* owner has not removed finds it, every Remove finds its key, and when all are
\* done Len() is the count before less the number of keys removed
C12_ConcurrentGetRemove ==
    /\ \A t \in Threads :
         /\ (pc[t] = "RLocked" /\ loc[t].op = "Get") =>
                readResult(loc[t]) = [value |-> valueOf(loc[t].key), ok |-> TRUE]
         /\ (pc[t] = "Unlock" /\ loc[t].op = "Remove") => loc[t].ret
    /\ AllDone =>
         /\ LenResult = NumThreads * numWritesPerG - Cardinality(last.removes)
         /\ \A k \in JobKeys : GetResult(k).ok = (k \notin last.removes)

\* C12 witness: goroutine 2 is in its Get, inside the lock, and key 1 is
\* removed already
C12_Witness ==
    /\ pc[2] = "RLocked" /\ loc[2].op = "Get"
    /\ model[1] = Absent /\ length = NumThreads * numWritesPerG - 1
    /\ readResult(loc[2]).ok

\* goroutine t is inside the critical section of a Put or a Remove
inCritical(t) == pc[t] \in {"Locked", "PutSplice", "PutCount", "RemoveUnlink", "RemoveShrink", "Unlock"}

\* goroutine t is inside the body of a read
inRead(t) == pc[t] \in {"RLocked", "Visit"}

\* what the read call c returns on the abstract map
modelResult(c) ==
    CASE c.op = "Get" -> ModelGet(c.key)
      [] c.op = "Range" -> [ret |-> ModelRange(c.start, c.end)]
      [] c.op = "Min" -> IF ModelKeys = {} THEN NotFound
                         ELSE [key |-> Least(ModelKeys), value |-> model[Least(ModelKeys)], ok |-> TRUE]
      [] c.op = "Max" -> IF ModelKeys = {} THEN NotFound
                         ELSE [key |-> Greatest(ModelKeys), value |-> model[Greatest(ModelKeys)], ok |-> TRUE]
      [] c.op = "Len" -> [ret |-> Cardinality(ModelKeys)]
      [] c.op = "IsEmpty" -> [ret |-> ModelKeys = {}]

\* C13: a Put or Remove inside its critical section holds the lock and is alone
\* with it; a read holds the lock in shared mode for its whole body, the engine
\* is then as the last complete write left it, and what the read returns is
\* the result of the operation on the map the complete writes have made
C13_LockDiscipline ==
    /\ \A t \in Threads :
         inCritical(t) => /\ mu.w = t
                          /\ \A u \in Threads \ {t} : ~inCritical(u) /\ ~inRead(u)
    /\ \A t \in Threads :
         inRead(t) => mu.readers[t] > 0 /\ <<forward, key, value, level, length>> = committed
    /\ \A t \in Threads :
         pc[t] = "RLocked" =>
             /\ \A c \in ReadCalls : bound(t, c) => readResult(c) = modelResult(c)
             /\ \A c \in RangeFuncCallsOf, stop \in StopKeys :
                  RangeFuncCalls(c.start, c.end, stop) = ModelVisits(c.start, c.end, stop)
    /\ \A t \in Threads :
         (pc[t] = "Visit" /\ visiting(loc[t])) =>
             /\ model[key[loc[t].current]] = value[loc[t].current]
             /\ visit(loc[t].current, loc[t].end, NoStop)
                  = ModelVisits(key[loc[t].current], loc[t].end, NoStop)

\* C13 witness: goroutine 1 is in RangeFunc at its second pair while goroutine
\* 2, in Put or Remove, holds the writer's mutex and waits for the read hold
C13_Witness ==
    /\ pc[1] = "Visit" /\ visiting(loc[1]) /\ key[loc[1].current] = 2
    /\ pc[2] = "LockWait" /\ mu.w = 2
    /\ length = 2

\* goroutine t is between its first write of the buffer and its last read of it
usesBuffer(t) == pc[t] \in {"PutSplice", "RemoveUnlink"}

\* at most one call uses the buffer, and the entries it has yet to read are
\* entries it wrote
C19_BufferInv ==
    /\ Cardinality({t \in Threads : usesBuffer(t)}) <= 1
    /\ \A t \in Threads :
         /\ pc[t] = "PutSplice" => (loc[t].i)..(loc[t].newLevel) \subseteq written
         /\ pc[t] = "RemoveUnlink" => (loc[t].i)..level \subseteq written
    /\ (\A t \in Threads : ~inCritical(t)) => written = {}

\* the buffer changes only in the search of a Put or a Remove: no read writes it
C19_BufferStep ==
    updateCache' # updateCache =>
        \E t \in Threads : pc[t] = "Locked" /\ pc'[t] \in {"PutSplice", "RemoveUnlink", "Unlock"}

\* C19: at most one Put or Remove at a time is between its first write of the
\* update buffer and its last read of it, every entry it reads while splicing
\* it wrote earlier in the same call, and no read operation writes the buffer
C19_ScratchBufferExclusive == [](C19_BufferInv) /\ [][C19_BufferStep]_vars

\* C19 witness: goroutine 1 is splicing at level 1 a node of a level that the
\* map did not have, through an entry its raise wrote, while goroutine 2 waits
\* for the writer's mutex
C19_Witness ==
    /\ pc[1] = "PutSplice" /\ loc[1].i = 1 /\ updateCache[1] = header
    /\ forward[header][1] = Nil /\ length = 1
    /\ pc[2] = "Lock"

\* goroutine t waits for the lock and cannot have it now
Blocked(t) ==
    \/ pc[t] = "Lock" /\ ~lockFree(mu)
    \/ pc[t] = "LockWait" /\ \E u \in Threads : mu.readers[u] > 0
    \/ pc[t] = "RBlocked"

\* a visitor is in a call it made on the map RangeFunc is reading
Reentered == \E t \in Threads : nested(t)

\* C14 as stated: whatever the goroutines call, the visitors of RangeFunc
\* included, no state has every goroutine blocked on the lock
C14_NoDeadlock == ~(\A t \in Threads : Blocked(t))

\* C14 amended: as long as no visitor calls the map RangeFunc is reading, no
\* state has every goroutine blocked on the lock, and every call made returns
C14_NoDeadlockWithoutReentry ==
    /\ []((\A t \in Threads : Blocked(t)) => Reentered)
    /\ \A t \in Threads : (pc[t] # "idle") ~> (pc[t] = "idle" \/ Reentered)

\* C14 witness: no visitor has called the map; goroutine 1 is in RangeFunc at a
\* pair, goroutine 2 holds the writer's mutex and waits for the read hold
C14_Witness ==
    /\ ~Reentered
    /\ pc[1] = "Visit" /\ visiting(loc[1])
    /\ pc[2] = "LockWait" /\ Blocked(2)

====
